---------------------------- MODULE Spec2Model ----------------------------
(***************************************************************************)
(* A model of riff_file_reader.c: the file handle (open / close over a     *)
(* memory mapped file) and the data chunk iterator (new / next / delete).  *)
(*                                                                         *)
(* Numbers of the program are kept at their width.  A value is the         *)
(* sequence of its bytes, least significant first (the host reads the      *)
(* size fields of the file as they lie in memory): a uint32_t and an int   *)
(* are 4 bytes, a size_t and a pointer offset are 8 bytes.                 *)
(***************************************************************************)
EXTENDS Integers, Sequences, FiniteSets, TLC

VARIABLES
  file,      \* the bytes of the file on disk
  slack,     \* readable zero bytes after the last byte of the mapping (page tail)
  status,    \* the process: "running", "aborted" (assert), "fault" (SIGSEGV)
  opened,    \* riff_file_open: "no", "ok", "failed"; "closed" after riff_file_close
  fh,        \* struct riff_file_s the handle points to, NULL when there is none
  fds,       \* number of open file descriptors
  maps,      \* base addresses of the established mappings
  heap,      \* live malloc blocks
  sys,       \* what the last open / close did: diagnostics and return value
  iters,     \* struct riff_file_iterator_s of each iterator handle, NULL when none
  obs        \* per iterator: what its caller and its callbacks have observed

vars == <<file, slack, status, opened, fh, fds, maps, heap, sys, iters, obs>>

\* the null pointer, where a struct may stand
NULL == [null |-> TRUE]

(***************************************************************************)
(* Bounds of the model.                                                    *)
(***************************************************************************)
MaxPay      == 2    \* leaf payloads of 0..MaxPay bytes
MaxNest     == 11   \* files nest 0..MaxNest LIST chunks
MaxInfo     == 11   \* files start with 1..MaxInfo bare INFO markers
MaxEosCalls == 2    \* calls of next counted after end-of-stream
PageTail    == 16   \* zero bytes of the last page readable after the file

(***************************************************************************)
(* Fixed width arithmetic on little-endian byte sequences.                 *)
(***************************************************************************)
RECURSIVE LE(_, _)
LE(n, k) ==
  IF k = 0 THEN <<>> ELSE <<n % 256>> \o LE(n \div 256, k - 1)

U32(n) == LE(n, 4)
U64(n) == LE(n, 8)

\* (size_t)x for a uint32_t x
ZeroExt(x) == x \o <<0, 0, 0, 0>>

\* (size_t)x for an int x: the sign bit fills the upper half
SignExt(x) ==
  x \o (IF x[4] >= 128 THEN <<255, 255, 255, 255>> ELSE <<0, 0, 0, 0>>)

RECURSIVE GeqFrom(_, _, _)
GeqFrom(a, b, k) ==
  IF k = 0 THEN TRUE
  ELSE IF a[k] # b[k] THEN a[k] > b[k]
  ELSE GeqFrom(a, b, k - 1)

\* a >= b, unsigned
Geq(a, b) == GeqFrom(a, b, Len(a))

RECURSIVE SubFrom(_, _, _, _)
SubFrom(a, b, k, borrow) ==
  IF k > Len(a) THEN <<>>
  ELSE LET d == a[k] - b[k] - borrow
       IN  <<d % 256>> \o SubFrom(a, b, k + 1, IF d < 0 THEN 1 ELSE 0)

\* a - b modulo 2^(8 * Len(a))
Sub(a, b) == SubFrom(a, b, 1, 0)

RECURSIVE AddFrom(_, _, _, _)
AddFrom(a, b, k, carry) ==
  IF k > Len(a) THEN <<>>
  ELSE LET s == a[k] + b[k] + carry
       IN  <<s % 256>> \o AddFrom(a, b, k + 1, s \div 256)

\* a + b modulo 2^(8 * Len(a))
Add(a, b) == AddFrom(a, b, 1, 0)

IsZero(a) == \A k \in 1..Len(a) : a[k] = 0

\* a value below 2^24, as a number of the model
Small(a) == \A k \in 4..Len(a) : a[k] = 0
Val(a)   == a[1] + 256 * a[2] + 65536 * a[3]

(***************************************************************************)
(* Four byte tags, as their ASCII codes.                                   *)
(***************************************************************************)
TagRIFF == <<82, 73, 70, 70>>
TagRIFX == <<82, 73, 70, 88>>
TagLIST == <<76, 73, 83, 84>>
TagINFO == <<73, 78, 70, 79>>
Tagmovi == <<109, 111, 118, 105>>
TagWAVE == <<87, 65, 86, 69>>
TagAVI  == <<65, 86, 73, 32>>
Tagfmt  == <<102, 109, 116, 32>>
Tagdata == <<100, 97, 116, 97>>
TagINAM == <<73, 78, 65, 77>>
Taghdrl == <<104, 100, 114, 108>>
Tagstrl == <<115, 116, 114, 108>>

(***************************************************************************)
(* The byte layout of the file, riff_file_reader.h.                        *)
(***************************************************************************)
Payload(n) == [k \in 1..n |-> 170]

\* struct riff_file_data_subchunk_s with a declared size
LeafD(id, declared, payload) == id \o declared \o payload
Leaf(id, n) == LeafD(id, U32(n), Payload(n))

\* struct riff_file_list_chunk_s with a declared size
ListD(declared, type, body) == TagLIST \o declared \o type \o body
List(type, body) == ListD(U32(4 + Len(body)), type, body)

\* struct riff_file_header_chunk_s and the payload of the file
RiffD(id, format, body) == id \o U32(4 + Len(body)) \o format \o body
Riff(format, body) == RiffD(TagRIFF, format, body)


(***************************************************************************)
(* The files of the model.  Well-formed files first, then files whose      *)
(* declared sizes disagree with their bytes, truncated files, files with   *)
(* pad bytes or bare INFO markers, and files open rejects.                 *)
(***************************************************************************)
Sizes == 0..MaxPay

\* 2^31, 2^31 + 100 and 2^32 - 1 as uint32_t
Big31    == <<0, 0, 0, 128>>
Big31p   == <<100, 0, 0, 128>>
BigMax   == <<255, 255, 255, 255>>

\* Scenario A of the specification: "fmt " of 16 bytes, "data" of 4 bytes
ScenarioA == Riff(TagWAVE, Leaf(Tagfmt, 16) \o Leaf(Tagdata, 4))

\* Scenario C of the specification: one LIST of type INFO holding one INAM
ScenarioC(n) == Riff(TagWAVE, List(TagINFO, Leaf(TagINAM, n)))

FlatFiles ==
  {Riff(TagWAVE, Leaf(Tagfmt, a) \o Leaf(Tagdata, b)) : a \in Sizes, b \in Sizes}
    \cup {ScenarioA, Riff(TagWAVE, <<>>)}

ListFiles ==
  {Riff(TagAVI, List(t, Leaf(TagINAM, a)) \o Leaf(Tagdata, b)) :
      t \in {TagINFO, Tagmovi, Taghdrl}, a \in Sizes, b \in Sizes}
    \cup {ScenarioC(n) : n \in Sizes}

TwoLevelFiles ==
  {Riff(TagAVI, List(Taghdrl, List(Tagstrl, Leaf(Tagfmt, a)) \o Leaf(TagINAM, b))
                  \o List(Tagmovi, Leaf(Tagdata, a))) : a \in Sizes, b \in Sizes}

RECURSIVE NestBody(_)
NestBody(d) ==
  IF d = 0 THEN Leaf(Tagdata, 1) ELSE List(Taghdrl, NestBody(d - 1))

\* d LIST chunks inside one another around one leaf
NestFile(d) == Riff(TagAVI, NestBody(d))
NestFiles == {NestFile(d) : d \in 0..MaxNest}

WellFormedFiles == FlatFiles \cup ListFiles \cup TwoLevelFiles \cup NestFiles

\* an inner chunk declares more than its enclosing list holds
OversizeLeafFiles ==
  UNION {{Riff(TagAVI, List(Taghdrl, LeafD(TagINAM, s, Payload(a))) \o Leaf(Tagdata, 1)) :
             s \in {U32(a + 1), U32(a + 8), Big31, BigMax}} : a \in Sizes}
    \cup {Riff(TagAVI, ListD(Big31p, Taghdrl, LeafD(Tagdata, Big31, Payload(1))))}

\* a LIST declares more, or less, than its sub-chunks take
MisSizedListFiles ==
  {Riff(TagAVI, ListD(s, t, Leaf(TagINAM, 1)) \o Leaf(Tagdata, b)) :
      s \in {U32(0), U32(3), U32(4), U32(12), U32(14), U32(30), Big31, BigMax},
      t \in {Tagmovi, Taghdrl}, b \in {1}}

\* an inner LIST declares more than the LIST around it
ClampedOuterFiles ==
  {Riff(TagAVI, ListD(U32(20), Taghdrl,
                      ListD(U32(40), Tagstrl, Leaf(Tagfmt, a) \o Leaf(TagINAM, 1)))
                  \o Leaf(Tagdata, 1)) : a \in Sizes}

MaxTrunc == 8
Trunc(f, k) == SubSeq(f, 1, Len(f) - k)
TruncatedFiles ==
  {Trunc(Riff(TagWAVE, Leaf(Tagfmt, a) \o Leaf(Tagdata, 1)), k) :
      a \in Sizes, k \in 1..MaxTrunc}

\* a pad byte after a leaf of odd size
PadFiles ==
  {Riff(TagWAVE, Leaf(Tagfmt, 1) \o <<0>> \o Leaf(Tagdata, b)) : b \in Sizes}

RECURSIVE Markers(_)
Markers(k) == IF k = 0 THEN <<>> ELSE TagINFO \o Markers(k - 1)

\* bare INFO markers, at the top level and inside a list
InfoFiles ==
  {Riff(TagAVI, Markers(k) \o Leaf(Tagdata, a)) : k \in 1..MaxInfo, a \in Sizes}
    \cup {Riff(TagAVI, List(Taghdrl, TagINFO \o Leaf(Tagdata, a))) : a \in Sizes}

\* files riff_file_open rejects: empty, shorter than the header, bad magic
RejectedFiles ==
  {<<>>, SubSeq(ScenarioA, 1, 4), SubSeq(ScenarioA, 1, 11),
   RiffD(TagRIFX, TagWAVE, Leaf(Tagdata, 1))}

Files ==
  WellFormedFiles \cup OversizeLeafFiles \cup MisSizedListFiles
    \cup ClampedOuterFiles
    \cup TruncatedFiles \cup PadFiles \cup InfoFiles \cup RejectedFiles

(***************************************************************************)
(* The mapped memory.  mmap maps the file at DumpAddr; the bytes of the    *)
(* last page after the end of the file read as zero; a read beyond them,   *)
(* or of a region that is not mapped, ends the process (SIGSEGV).          *)
(***************************************************************************)
DumpAddr == "dump_addr"
ZeroAddr == "0"

\* sizeof(struct riff_file_header_chunk_s)
HeaderSize == 12

\* Max allowed nested LIST chunks
RIFF_FILE_NESTED_LIST_MAX_LEVELS == 10

Readable(a, n) ==
  /\ DumpAddr \in maps
  /\ Small(a)
  /\ Val(a) + n <= Len(file) + slack

\* the n bytes at offset a of the mapping
Read(a, n) ==
  [k \in 1..n |-> IF Val(a) + k <= Len(file) THEN file[Val(a) + k] ELSE 0]

\* a read that is refused when it reaches beyond the last byte of the file
TouchChecked(s, a, n) ==
  [s EXCEPT !.status = IF Readable(a, n) /\ Val(a) + n <= Len(file)
                       THEN @ ELSE "fault"]

\* a read of n bytes at offset a by the frame s
Touch(s, a, n) ==
  [s EXCEPT !.o.oob  = @ \/ ~Small(a) \/ Val(a) + n > Len(file),
            !.status = IF Readable(a, n) THEN @ ELSE "fault"]

(***************************************************************************)
(* What an iterator's caller and callbacks see.  trace holds the list      *)
(* events and the returned chunks in the order they happen, delivered to a *)
(* callback or not; cb_calls holds the calls of the registered callbacks;  *)
(* stores holds, for every budget stored for a new level, the budget left  *)
(* of the level around it at that moment; warns holds the underflow        *)
(* reports printed, w0 how many of them were there when the last call of   *)
(* next began.                                                             *)
(***************************************************************************)
Ev(ev, level, off, id, size, type, addr, left) ==
  [ev |-> ev, level |-> level, off |-> off, id |-> id, size |-> size,
   type |-> type, addr |-> addr, left |-> left]

NoObs ==
  [life |-> "none", ret |-> "none", trace |-> <<>>, cb_calls |-> <<>>,
   warns |-> <<>>, idx_max |-> 0, depth |-> 0, oob |-> FALSE, eos_calls |-> 0,
   stores |-> <<>>, w0 |-> 0]

(***************************************************************************)
(* sub_all_lists: charge len bytes against the budget of every active      *)
(* level.  len is an int; the comparison and the subtraction convert it    *)
(* to size_t.                                                              *)
(***************************************************************************)
Underflow(left, len) == ~Geq(left, SignExt(len))

ChargeWraps(left, len) == Sub(left, SignExt(len))

Charge(left, len) ==
  IF Underflow(left, len) THEN U64(0) ELSE Sub(left, SignExt(len))

RECURSIVE sub_all_lists_from(_, _, _)
sub_all_lists_from(s, len, i) ==
  IF i > s.it.list_level THEN s
  ELSE LET left == s.it.list_size[i]
           warned == IF Underflow(left, len)
                     THEN Append(s.o.warns, [i |-> i, left |-> left, len |-> len])
                     ELSE s.o.warns
       IN  sub_all_lists_from(
             [s EXCEPT !.it.list_size[i] = Charge(left, len), !.o.warns = warned],
             len, i + 1)

sub_all_lists(s, len) == sub_all_lists_from(s, len, 0)

AdvanceStuck(s, n) == s

\* it->addr += n
Advance(s, n) == [s EXCEPT !.it.addr = Add(@, n)]

ListDoneNever(it) == FALSE

(***************************************************************************)
(* riff_file_data_chunk_iterator_next, on a frame s = [it, o, status]:     *)
(* the iterator, what has been observed, and the state of the process.     *)
(***************************************************************************)
ListDone(it) == it.list_level > 0 /\ IsZero(it.list_size[it.list_level])

\* the levels that are done are left without a list-end
RECURSIVE close_lists_quiet(_)
close_lists_quiet(s) ==
  IF ListDone(s.it)
  THEN close_lists_quiet([s EXCEPT !.it.list_level = @ - 1])
  ELSE s

RECURSIVE close_lists(_)
close_lists(s) ==
  IF ListDone(s.it)
  THEN LET l == s.it.list_level
           e == Ev("end", l, s.it.addr, <<>>, <<>>, <<>>, s.it.addr, s.it.list_size[l])
       IN  close_lists(
             [s EXCEPT !.o.trace    = Append(@, e),
                       !.o.cb_calls = IF s.it.list_end_cb
                                      THEN Append(@, [fn |-> "list_end", level |-> l,
                                                      id |-> <<>>, size |-> <<>>,
                                                      type |-> <<>>])
                                      ELSE @,
                       !.it.list_level = l - 1])
  ELSE s

AllFileDoneAnyLevel(it) == IsZero(it.list_size[0])

AllFileDone(it) == it.list_level = 0 /\ IsZero(it.list_size[0])

IsMoviNever(type) == FALSE

\* memcmp(list->type, "movi", 4) == 0
IsMovi(type) == type = Tagmovi

AssertLevelOff(level) == TRUE

AssertLevel(level) == level < RIFF_FILE_NESTED_LIST_MAX_LEVELS

\* it->list_size[level] = size; a store outside the array corrupts the heap
StoreSize(s, level, size) ==
  IF level \in DOMAIN s.it.list_size
  THEN [s EXCEPT !.it.list_size[level] = size,
                 !.o.idx_max = IF level > @ THEN level ELSE @,
                 !.o.stores = Append(@, [level |-> level, size |-> size,
                                         outer |-> s.it.list_size[level - 1]])]
  ELSE [s EXCEPT !.o.idx_max = level, !.status = "corrupt"]

Deeper(s) == [s EXCEPT !.o.depth = @ + 1]

RECURSIVE next(_)

\* the tag at cur is "LIST"
next_list(s, cur) ==
  LET a   == sub_all_lists(Advance(s, U64(8)), U32(8))
      lvl == a.it.list_level + 1
      b   == [a EXCEPT !.it.list_level = lvl]
  IN  IF ~AssertLevel(lvl) THEN [b EXCEPT !.status = "aborted"]
      ELSE
      LET t1 == Touch(b, Add(cur, U64(4)), 4) IN
      IF t1.status # "running" THEN t1 ELSE
      LET size == Read(Add(cur, U64(4)), 4)
          st   == StoreSize(t1, lvl, ZeroExt(size))
      IN
      IF st.status # "running" THEN st ELSE
      LET t2 == Touch(st, Add(cur, U64(8)), 4) IN
      IF t2.status # "running" THEN t2 ELSE
      LET type == Read(Add(cur, U64(8)), 4)
          sk   == IF IsMovi(type)
                  THEN sub_all_lists(Advance(t2, ZeroExt(size)), size)
                  ELSE sub_all_lists(Advance(t2, U64(4)), U32(4))
          e    == Ev("start", lvl, cur, TagLIST, size, type, sk.it.addr,
                     sk.it.list_size[lvl])
          cb   == [sk EXCEPT !.o.trace    = Append(@, e),
                             !.o.cb_calls = IF sk.it.list_start_cb
                                            THEN Append(@, [fn |-> "list_start",
                                                            level |-> lvl, id |-> TagLIST,
                                                            size |-> size, type |-> type])
                                            ELSE @]
      IN  next(Deeper(cb))

\* the tag at cur is "INFO"
next_info(s, cur) ==
  next(Deeper(sub_all_lists(Advance(s, U64(4)), U32(4))))

\* any other tag: a leaf sub-chunk
next_leaf(s, cur) ==
  LET a == sub_all_lists(Advance(s, U64(8)), U32(8))
      t == Touch(a, Add(cur, U64(4)), 4)
  IN  IF t.status # "running" THEN t ELSE
      LET size == Read(Add(cur, U64(4)), 4)
          b    == Advance(t, ZeroExt(size))
          c    == sub_all_lists(b, size)
          e    == Ev("chunk", c.it.list_level, cur, Read(cur, 4), size, <<>>,
                     c.it.addr, b.it.list_size[b.it.list_level])
      IN  [c EXCEPT !.o.trace = Append(@, e), !.o.ret = "chunk"]

\* next with the tag read before the end of the file is checked for
next_reads_first(s) ==
  LET cur == s.it.addr
      c   == close_lists(s)
      t   == Touch(c, cur, 4)
  IN  IF t.status # "running" THEN t
      ELSE IF AllFileDone(t.it) THEN [t EXCEPT !.o.ret = "eos"]
      ELSE IF Read(cur, 4) = TagLIST THEN next_list(t, cur)
      ELSE IF Read(cur, 4) = TagINFO THEN next_info(t, cur)
      ELSE next_leaf(t, cur)

next(s) ==
  LET cur == s.it.addr
      c   == close_lists(s)
  IN  IF AllFileDone(c.it) THEN [c EXCEPT !.o.ret = "eos"]
      ELSE
      LET t == Touch(c, cur, 4) IN
      IF t.status # "running" THEN t
      ELSE IF Read(cur, 4) = TagLIST THEN next_list(t, cur)
      ELSE IF Read(cur, 4) = TagINFO THEN next_info(t, cur)
      ELSE next_leaf(t, cur)

(***************************************************************************)
(* riff_file_open and riff_file_close.  env holds what the system calls    *)
(* of this run answer: TRUE for success.                                   *)
(***************************************************************************)
Envs == [malloc : BOOLEAN, open : BOOLEAN, fstat : BOOLEAN, mmap : BOOLEAN,
         munmap : BOOLEAN]

\* mmap of a length of 0 fails whatever the system's state
MmapOk(env) == env.mmap /\ Len(file) > 0

\* munmap(addr, len): the mapping at addr is removed when the call succeeds
Munmap(m, addr, ok) == IF ok THEN m \ {addr} ELSE m

FileBlock == <<"file", 0>>
IterBlock(i) == <<"it", i>>

OpenResult(ret, f, nfds, m, h, msg) ==
  [ret |-> ret, fh |-> f, fds |-> nfds, maps |-> m, heap |-> h, msg |-> msg]

HeaderValidMagicOnly(type) == SubSeq(file, 1, 4) = TagRIFF

\* memcmp(header->id, "RIFF", 4) and memcmp(header->format, type, 4) both 0
HeaderValid(type) ==
  /\ SubSeq(file, 1, 4) = TagRIFF
  /\ SubSeq(file, 9, 12) = type

riff_file_open(type, env) ==
  IF ~env.malloc
  THEN OpenResult("NULL", NULL, fds, maps, heap, "malloc file failed")
  ELSE IF ~env.open
  THEN OpenResult("NULL", NULL, fds, maps, heap, "file open failed")
  ELSE IF ~env.fstat
  THEN OpenResult("NULL", NULL, fds + 1, maps, heap, "file stat failed")
  ELSE IF ~MmapOk(env)
  THEN OpenResult("NULL", NULL, fds, maps, heap, "mmap file failed")
  ELSE IF Len(file) < HeaderSize
  THEN OpenResult("NULL", NULL, fds,
                  Munmap(maps \cup {DumpAddr}, ZeroAddr, env.munmap), heap,
                  "riff header too short")
  ELSE IF ~HeaderValid(type)
  THEN OpenResult("NULL", NULL, fds,
                  Munmap(maps \cup {DumpAddr}, ZeroAddr, env.munmap), heap,
                  "no valid riff header")
  ELSE OpenResult("handle", [size |-> U64(Len(file)), vaddr |-> DumpAddr], fds,
                  maps \cup {DumpAddr}, heap \cup {FileBlock}, "")

\* the value riff_file_close returns
CloseReturn(res) == 0

riff_file_close(f, env) ==
  [ret  |-> CloseReturn(env.munmap),
   maps |-> Munmap(maps, f.vaddr, env.munmap),
   heap |-> heap \ {FileBlock},
   msg  |-> IF env.munmap THEN "" ELSE "file munmap failed"]

(***************************************************************************)
(* riff_file_data_chunk_iterator_new                                       *)
(***************************************************************************)
Levels == 0..(RIFF_FILE_NESTED_LIST_MAX_LEVELS - 1)

riff_file_data_chunk_iterator_new(f, list_start_cb, list_end_cb, malloc_ok) ==
  IF f = NULL \/ ~malloc_ok THEN NULL
  ELSE [addr          |-> U64(HeaderSize),
        list_level    |-> 0,
        list_size     |-> [l \in Levels |->
                             IF l = 0 THEN Sub(f.size, U64(HeaderSize)) ELSE U64(0)],
        list_start_cb |-> list_start_cb,
        list_end_cb   |-> list_end_cb]

\* riff_file_data_chunk_iterator_get_list_level
riff_file_data_chunk_iterator_get_list_level(it) == it.list_level

(***************************************************************************)
(* The state machine.                                                      *)
(***************************************************************************)
IterIds   == {1, 2}
MainIters == {1}

Init ==
  /\ file \in Files
  /\ slack \in {0, PageTail}
  /\ status = "running"
  /\ opened = "no"
  /\ fh = NULL
  /\ fds = 0
  /\ maps = {}
  /\ heap = {}
  /\ sys = [open_ret |-> "none", open_msg |-> "", type |-> <<>>, can_map |-> FALSE,
            close_ret |-> <<>>, close_msg |-> "", unmapped |-> FALSE]
  /\ iters = [i \in IterIds |-> NULL]
  /\ obs = [i \in IterIds |-> NoObs]

Open ==
  /\ status = "running"
  /\ opened = "no"
  /\ \E type \in {TagWAVE, TagAVI}, env \in Envs :
       LET r == riff_file_open(type, env)
       IN  /\ opened' = IF r.ret = "NULL" THEN "failed" ELSE "ok"
           /\ fh' = r.fh
           /\ fds' = r.fds
           /\ maps' = r.maps
           /\ heap' = r.heap
           /\ sys' = [sys EXCEPT !.open_ret = r.ret, !.open_msg = r.msg,
                                 !.type = type,
                                 !.can_map = env.malloc /\ env.open /\ env.fstat
                                             /\ MmapOk(env)]
  /\ UNCHANGED <<file, slack, status, iters, obs>>

Close ==
  /\ status = "running"
  /\ opened = "ok"
  /\ \E env \in {e \in Envs : e.malloc /\ e.open /\ e.fstat /\ e.mmap} :
       LET r == riff_file_close(fh, env)
       IN  /\ maps' = r.maps
           /\ heap' = r.heap
           /\ sys' = [sys EXCEPT !.close_ret = <<r.ret>>, !.close_msg = r.msg,
                                 !.unmapped = env.munmap]
  /\ opened' = "closed"
  /\ fh' = NULL
  /\ UNCHANGED <<file, slack, status, fds, iters, obs>>

New(i) ==
  /\ status = "running"
  /\ opened \in {"ok", "failed"}
  /\ obs[i].life = "none"
  /\ \E list_start_cb \in BOOLEAN, list_end_cb \in BOOLEAN, malloc_ok \in BOOLEAN :
       LET it == riff_file_data_chunk_iterator_new(fh, list_start_cb, list_end_cb,
                                                    malloc_ok)
       IN  /\ iters' = [iters EXCEPT ![i] = it]
           /\ obs' = [obs EXCEPT ![i].life = IF it = NULL THEN "failed" ELSE "live"]
           /\ heap' = IF it = NULL THEN heap ELSE heap \cup {IterBlock(i)}
  /\ UNCHANGED <<file, slack, status, opened, fh, fds, maps, sys>>

\* next on an iterator whose cursor, depth and budgets are one static copy
NextCallShared(i) ==
  /\ status = "running"
  /\ obs[i].life = "live"
  /\ obs[i].eos_calls < MaxEosCalls
  /\ LET r == next([it |-> iters[i], o |-> [obs[i] EXCEPT !.depth = 0, !.w0 = Len(obs[i].warns)],
                    status |-> status])
     IN  /\ iters' = [j \in IterIds |-> IF iters[j] = NULL THEN NULL
                                        ELSE [r.it EXCEPT
                                                !.list_start_cb = iters[j].list_start_cb,
                                                !.list_end_cb = iters[j].list_end_cb]]
         /\ status' = r.status
         /\ obs' = [obs EXCEPT ![i] =
                      [r.o EXCEPT !.ret = IF r.status = "running" THEN @ ELSE "died",
                                  !.eos_calls = IF r.status = "running" /\ r.o.ret = "eos"
                                                THEN @ + 1 ELSE @]]
  /\ UNCHANGED <<file, slack, opened, fh, fds, maps, heap, sys>>

NextCall(i) ==
  /\ status = "running"
  /\ obs[i].life = "live"
  /\ obs[i].eos_calls < MaxEosCalls
  /\ LET r == next([it |-> iters[i], o |-> [obs[i] EXCEPT !.depth = 0, !.w0 = Len(obs[i].warns)],
                    status |-> status])
     IN  /\ iters' = [iters EXCEPT ![i] = r.it]
         /\ status' = r.status
         /\ obs' = [obs EXCEPT ![i] =
                      [r.o EXCEPT !.ret = IF r.status = "running" THEN @ ELSE "died",
                                  !.eos_calls = IF r.status = "running" /\ r.o.ret = "eos"
                                                THEN @ + 1 ELSE @]]
  /\ UNCHANGED <<file, slack, opened, fh, fds, maps, heap, sys>>

Delete(i) ==
  /\ status = "running"
  /\ obs[i].life = "live"
  /\ iters' = [iters EXCEPT ![i] = NULL]
  /\ obs' = [obs EXCEPT ![i].life = "deleted"]
  /\ heap' = heap \ {IterBlock(i)}
  /\ UNCHANGED <<file, slack, status, opened, fh, fds, maps, sys>>

Next ==
  \/ Open
  \/ Close
  \/ \E i \in MainIters : New(i)
  \/ \E i \in MainIters : NextCall(i)
  \/ \E i \in MainIters : Delete(i)

Spec == Init /\ [][Next]_vars

(***************************************************************************)
(* Several iterators over one handle: the calls of a single thread, or of  *)
(* one thread per iterator, taken one whole call at a time.                *)
(***************************************************************************)
MultiFiles ==
  {ScenarioC(1),
   Riff(TagAVI, List(Taghdrl, List(Tagstrl, Leaf(Tagfmt, 1)) \o Leaf(TagINAM, 1))
                  \o List(Tagmovi, Leaf(Tagdata, 1))),
   Riff(TagAVI, List(Taghdrl, LeafD(TagINAM, U32(9), Payload(1))) \o Leaf(Tagdata, 1)),
   Trunc(Riff(TagWAVE, Leaf(Tagfmt, 1) \o Leaf(Tagdata, 1)), 3)}

InitMulti ==
  /\ file \in MultiFiles
  /\ slack = 0
  /\ status = "running"
  /\ opened = "no"
  /\ fh = NULL
  /\ fds = 0
  /\ maps = {}
  /\ heap = {}
  /\ sys = [open_ret |-> "none", open_msg |-> "", type |-> <<>>, can_map |-> FALSE,
            close_ret |-> <<>>, close_msg |-> "", unmapped |-> FALSE]
  /\ iters = [i \in IterIds |-> NULL]
  /\ obs = [i \in IterIds |-> NoObs]

NextMulti ==
  \/ Open
  \/ Close
  \/ \E i \in IterIds : New(i)
  \/ \E i \in IterIds : NextCall(i)
  \/ \E i \in IterIds : Delete(i)

SpecMulti == InitMulti /\ [][NextMulti]_vars

(***************************************************************************)
(* Helpers of the properties.                                              *)
(***************************************************************************)
Live(i) == obs[i].life = "live"

Last(tr) == tr[Len(tr)]

\* list-starts minus list-ends among the first n events of tr
DepthAfter(tr, n) ==
  Cardinality({j \in 1..n : tr[j].ev = "start"})
    - Cardinality({j \in 1..n : tr[j].ev = "end"})

\* the callback calls the list events of tr make, given the callbacks registered
CallsOf(tr, list_start_cb, list_end_cb) ==
  LET Delivered(e) == \/ e.ev = "start" /\ list_start_cb
                      \/ e.ev = "end" /\ list_end_cb
      sel == SelectSeq(tr, Delivered)
  IN  [k \in 1..Len(sel) |->
         [fn    |-> IF sel[k].ev = "start" THEN "list_start" ELSE "list_end",
          level |-> sel[k].level, id |-> sel[k].id, size |-> sel[k].size,
          type  |-> sel[k].type]]

\* the chunks that start at byte from + 1 exactly fill the bytes up to byte to,
\* and so do the sub-chunks of every LIST among them
RECURSIVE ChunksFill(_, _, _)
ChunksFill(f, from, to) ==
  IF from = to THEN TRUE
  ELSE IF from + 8 > to THEN FALSE
  ELSE LET size == SubSeq(f, from + 5, from + 8)
       IN  /\ Small(ZeroExt(size))
           /\ from + 8 + Val(size) <= to
           /\ SubSeq(f, from + 1, from + 4) = TagLIST
                => /\ Val(size) >= 4
                   /\ ChunksFill(f, from + 12, from + 8 + Val(size))
           /\ ChunksFill(f, from + 8 + Val(size), to)

WellFormed(f) == Len(f) >= HeaderSize /\ ChunksFill(f, HeaderSize, Len(f))

(***************************************************************************)
(* C1.  For every well-formed file, calling next from a fresh iterator     *)
(* never takes the underflow branch of sub_all_lists, budget[0] starts at  *)
(* the mapped length minus 12 and is 0 exactly when the cursor stands at   *)
(* the end of the file, next then returns end-of-stream, and the process   *)
(* keeps running, so that the loop "call next until NULL" ends.            *)
(***************************************************************************)
C1_WellFormedBudget ==
  \A i \in IterIds :
    (WellFormed(file) /\ opened = "ok" /\ Live(i)) =>
      /\ status = "running"
      /\ obs[i].warns = <<>>
      /\ obs[i].ret = "none" =>
           iters[i].list_size[0] = U64(Len(file) - HeaderSize)
      /\ IsZero(iters[i].list_size[0]) <=> iters[i].addr = U64(Len(file))
      /\ obs[i].ret = "eos" => IsZero(iters[i].list_size[0])

(***************************************************************************)
(* C2.  The list-start and list-end events of an iterator form a valid     *)
(* stack: list-start(d) is fired when the depth goes from d-1 to d,        *)
(* list-end(d) when it goes from d to d-1, a chunk is returned at the      *)
(* depth of the lists open around it, the depth the events add up to is    *)
(* the iterator's list_level, and at end-of-stream every list-start has    *)
(* had its list-end.  The registered callbacks are called for these events *)
(* and for no other, in this order.                                        *)
(***************************************************************************)
C2_EventsFormStack ==
  \A i \in IterIds :
    LET tr == obs[i].trace
    IN  /\ \A k \in 1..Len(tr) :
             /\ tr[k].ev = "start" => tr[k].level = DepthAfter(tr, k - 1) + 1
             /\ tr[k].ev = "end"   => /\ tr[k].level = DepthAfter(tr, k - 1)
                                      /\ tr[k].level >= 1
             /\ tr[k].ev = "chunk" => tr[k].level = DepthAfter(tr, k - 1)
        /\ (Live(i) /\ status = "running") =>
             iters[i].list_level = DepthAfter(tr, Len(tr))
        /\ obs[i].ret = "eos" => DepthAfter(tr, Len(tr)) = 0
        /\ Live(i) =>
             obs[i].cb_calls = CallsOf(tr, iters[i].list_start_cb, iters[i].list_end_cb)

C2_Witness ==
  \E i \in IterIds :
    /\ obs[i].ret = "eos"
    /\ Live(i)
    /\ iters[i].list_start_cb
    /\ iters[i].list_end_cb
    /\ \E k \in 1..Len(obs[i].trace) :
         obs[i].trace[k].ev = "end" /\ obs[i].trace[k].level = 2

(***************************************************************************)
(* C3.  Leaf chunks are returned in strictly increasing byte-offset order: *)
(* no step moves a cursor backwards, the cursor after a returned chunk is  *)
(* its offset plus 8 plus its declared size, and every later event and     *)
(* chunk lies at or after that cursor.                                     *)
(***************************************************************************)
C3_OffsetsOrdered ==
  \A i \in IterIds :
    LET tr == obs[i].trace
    IN  /\ \A k \in 1..Len(tr) :
             tr[k].ev = "chunk" =>
               tr[k].addr = Add(Add(tr[k].off, U64(8)), ZeroExt(tr[k].size))
        /\ \A k \in 1..Len(tr), m \in 1..Len(tr) :
             k < m => /\ Geq(tr[m].off, tr[k].addr)
                      /\ (tr[k].ev = "chunk" /\ tr[m].ev = "chunk")
                            => tr[m].off # tr[k].off
        /\ (Live(i) /\ Len(tr) > 0) => Geq(iters[i].addr, Last(tr).addr)
        /\ (Live(i) /\ obs[i].ret = "chunk") => iters[i].addr = Last(tr).addr

C3_CursorMonotone ==
  \A i \in IterIds :
    (iters[i] # NULL /\ iters'[i] # NULL) => Geq(iters'[i].addr, iters[i].addr)

C3_ChunksInOffsetOrder == [](C3_OffsetsOrdered) /\ [][C3_CursorMonotone]_vars

C3_Witness ==
  \E i \in IterIds :
    \E k \in 1..Len(obs[i].trace), m \in 1..Len(obs[i].trace) :
      /\ k < m
      /\ obs[i].trace[k].ev = "chunk"
      /\ obs[i].trace[m].ev = "chunk"
      /\ obs[i].trace[m].level < obs[i].trace[k].level

(***************************************************************************)
(* C4.  End-of-stream is an idempotent terminal state: once next has       *)
(* returned end-of-stream, a further call returns end-of-stream again,     *)
(* leaves the cursor, the depth and every budget as they are and fires no  *)
(* list event.                                                             *)
(***************************************************************************)
C4_EosStep ==
  \A i \in IterIds :
    (obs[i].ret = "eos" /\ Live(i) /\ obs'[i].life = "live") =>
      /\ iters'[i] = iters[i]
      /\ obs'[i].ret = "eos"
      /\ obs'[i].trace = obs[i].trace
      /\ obs'[i].cb_calls = obs[i].cb_calls
      /\ obs'[i].warns = obs[i].warns
      /\ status' = "running"
      /\ iters[i].list_level = 0
      /\ IsZero(iters[i].list_size[0])

C4_EosIdempotent == [][C4_EosStep]_vars

C4_Witness ==
  \E i \in IterIds :
    obs[i].eos_calls >= 2 /\ Len(obs[i].trace) > 0 /\ DumpAddr \notin maps

(***************************************************************************)
(* C5.  For a LIST of type "movi" and declared size S that next enters,    *)
(* the cursor stands 8 + S bytes past the LIST tag when list-start is      *)
(* fired, the budget of the entered depth is 0, the event that follows is  *)
(* the list-end of that depth, and no chunk is returned and no list-start  *)
(* fired at an offset inside those 8 + S bytes.                            *)
(***************************************************************************)
C5_MoviSkipped ==
  \A i \in IterIds :
    LET tr == obs[i].trace
    IN  \A k \in 1..Len(tr) :
          (tr[k].ev = "start" /\ tr[k].type = Tagmovi) =>
            /\ tr[k].addr = Add(Add(tr[k].off, U64(8)), ZeroExt(tr[k].size))
            /\ IsZero(tr[k].left)
            /\ k < Len(tr)
            /\ tr[k + 1].ev = "end"
            /\ tr[k + 1].level = tr[k].level
            /\ \A m \in 1..Len(tr) :
                 (m # k /\ tr[m].ev \in {"start", "chunk"}) =>
                   \/ Geq(tr[k].off, tr[m].addr)
                   \/ Geq(tr[m].off, tr[k].addr)

C5_Witness ==
  \E i \in IterIds :
    \E k \in 1..Len(obs[i].trace) :
      /\ obs[i].trace[k].ev = "start"
      /\ obs[i].trace[k].type = Tagmovi
      /\ obs[i].trace[k].size = U32(13)
      /\ obs[i].ret = "chunk"
      /\ Last(obs[i].trace).id = Tagdata
      /\ WellFormed(file)

(***************************************************************************)
(* C6.  When next returns a chunk whose declared size is larger than what  *)
(* was left of the budget of its enclosing level, the process keeps        *)
(* running, that level's budget is exactly 0, and sub_all_lists has        *)
(* reported the underflow of that level with that budget and that size.    *)
(***************************************************************************)
Oversized(e) == e.ev = "chunk" /\ ~Geq(e.left, ZeroExt(e.size))

C6_UnderflowClamps ==
  \A i \in IterIds :
    (Live(i) /\ obs[i].ret = "chunk" /\ Oversized(Last(obs[i].trace))) =>
      LET e == Last(obs[i].trace)
      IN  /\ status = "running"
          /\ iters[i].list_level = e.level
          /\ IsZero(iters[i].list_size[e.level])
          /\ \E w \in 1..Len(obs[i].warns) :
               obs[i].warns[w] = [i |-> e.level, left |-> e.left, len |-> e.size]

C6_Witness ==
  \E i \in IterIds :
    /\ Live(i)
    /\ obs[i].ret = "chunk"
    /\ Oversized(Last(obs[i].trace))
    /\ Last(obs[i].trace).level = 1
    /\ ~IsZero(iters[i].list_size[0])

(***************************************************************************)
(* C7.  The depth check fires before a budget is stored for a new depth:   *)
(* no budget is stored at an index outside 0..9, the depth of a running    *)
(* iterator lies in 0..9, and next on a file that nests 11 LIST chunks     *)
(* ends in the failed assertion.                                           *)
(***************************************************************************)
C7_DepthBounded ==
  /\ status # "corrupt"
  /\ \A i \in IterIds :
       /\ obs[i].idx_max \in Levels
       /\ (Live(i) /\ status = "running") => iters[i].list_level \in Levels
       /\ (file \in {NestFile(d) : d \in 11..MaxNest} /\ obs[i].ret # "none"
             /\ DumpAddr \in maps) => status = "aborted"

C7_Witness ==
  \E i \in IterIds :
    /\ file = NestFile(11)
    /\ status = "aborted"
    /\ obs[i].idx_max = RIFF_FILE_NESTED_LIST_MAX_LEVELS - 1

(***************************************************************************)
(* C8.  When riff_file_open returns failure, no file descriptor is left    *)
(* open and no mapping of the file is left established.                    *)
(***************************************************************************)
C8_NoLeakOnFailure ==
  opened = "failed" => (fds = 0 /\ maps = {} /\ heap = {})

(***************************************************************************)
(* C9.  riff_file_open returns a handle if and only if the handle, the     *)
(* descriptor and the mapping could be had, the file holds at least 12     *)
(* bytes, its first 4 bytes are "RIFF" and its bytes 8..11 are the type    *)
(* the caller gave; a WAVE file opened as "AVI " yields no handle.         *)
(***************************************************************************)
C9_OpenIff ==
  opened # "no" =>
    /\ sys.open_ret = "handle" <=>
         /\ sys.can_map
         /\ Len(file) >= HeaderSize
         /\ SubSeq(file, 1, 4) = TagRIFF
         /\ SubSeq(file, 9, 12) = sys.type
    /\ (file = ScenarioA /\ sys.type = TagAVI) => sys.open_ret = "NULL"
    /\ sys.open_ret = "NULL" <=> opened = "failed"
    /\ opened = "ok" <=> fh # NULL

C9_Witness ==
  /\ opened = "failed"
  /\ file = ScenarioA
  /\ sys.type = TagAVI
  /\ sys.can_map
  /\ sys.open_msg = "no valid riff header"

(***************************************************************************)
(* C10.  riff_file_close returns a failure result when munmap fails and    *)
(* success otherwise, and in both cases the handle's memory is released.   *)
(***************************************************************************)
C10_CloseReportsUnmap ==
  opened = "closed" =>
    /\ sys.close_ret # <<0>> <=> ~sys.unmapped
    /\ FileBlock \notin heap

(***************************************************************************)
(* C11.  Iterators over one handle are independent.  A step that acts on   *)
(* one iterator leaves the cursor, the depth, the budgets and the          *)
(* observations of every other iterator as they are, and leaves the        *)
(* handle, the mappings and the bytes of the file as they are; and after   *)
(* its k-th call of next, whatever the other iterators did in between, an  *)
(* iterator stands where k calls of next take a fresh iterator that runs   *)
(* alone, with the same chunks returned and the same list events fired.    *)
(***************************************************************************)
\* the calls of next made on iterator i so far
CallsMade(i) ==
  Cardinality({k \in 1..Len(obs[i].trace) : obs[i].trace[k].ev = "chunk"})
    + obs[i].eos_calls + (IF obs[i].ret = "died" THEN 1 ELSE 0)

\* one call of next by the only iterator of a process
AloneCall(s) ==
  LET r == next([s EXCEPT !.o.depth = 0, !.o.w0 = Len(s.o.warns)])
  IN  [r EXCEPT !.o.ret = IF r.status = "running" THEN r.o.ret ELSE "died",
                !.o.eos_calls = IF r.status = "running" /\ r.o.ret = "eos"
                                THEN @ + 1 ELSE @]

RECURSIVE RunAlone(_, _)
RunAlone(s, k) == IF k = 0 THEN s ELSE AloneCall(RunAlone(s, k - 1))

\* a fresh iterator with the callbacks of it, over the handle as it was opened
FreshLike(it) ==
  [it |-> riff_file_data_chunk_iterator_new(
            [size |-> U64(Len(file)), vaddr |-> DumpAddr],
            it.list_start_cb, it.list_end_cb, TRUE),
   o |-> [NoObs EXCEPT !.life = "live"],
   status |-> "running"]

C11_SameAsAlone ==
  \A i \in IterIds :
    (Live(i) /\ DumpAddr \in maps) =>
      LET a == RunAlone(FreshLike(iters[i]), CallsMade(i))
      IN  a.it = iters[i] /\ a.o = obs[i]

C11_OthersUntouched ==
  \A i \in IterIds :
    (iters'[i] # iters[i] \/ obs'[i] # obs[i]) =>
      /\ \A j \in IterIds \ {i} : iters'[j] = iters[j] /\ obs'[j] = obs[j]
      /\ fh' = fh
      /\ maps' = maps
      /\ file' = file
      /\ slack' = slack

C11_IteratorsIndependent == [](C11_SameAsAlone) /\ [][C11_OthersUntouched]_vars

\* both iterators are part way through the file, at different places
C11_Witness ==
  /\ Live(1) /\ Live(2)
  /\ CallsMade(1) >= 2
  /\ CallsMade(2) = 1
  /\ obs[1].ret = "chunk"
  /\ iters[1].list_level # iters[2].list_level
  /\ Last(obs[1].trace).ev = "chunk"
  /\ Len(obs[1].trace) > Len(obs[2].trace) + 1

(***************************************************************************)
(* C12.  Between the calls of a running process, the level an iterator     *)
(* reports is the number of list-starts fired minus the number of          *)
(* list-ends fired on it: 0 after new, 0 after next has returned           *)
(* end-of-stream, and after next has returned a chunk of a well-formed     *)
(* file the number of LIST chunks of the file that chunk lies in.          *)
(***************************************************************************)
\* the number of LIST chunks around the chunk at byte off of a well-formed
\* file, counted from d for the chunks of bytes from + 1 .. to; -1 if none
RECURSIVE Enclosing(_, _, _, _, _)
Enclosing(f, from, to, off, d) ==
  IF from + 8 > to THEN -1
  ELSE LET size == Val(SubSeq(f, from + 5, from + 8))
       IN  IF from = off THEN d
           ELSE IF /\ SubSeq(f, from + 1, from + 4) = TagLIST
                   /\ off > from
                   /\ off < from + 8 + size
           THEN Enclosing(f, from + 12, from + 8 + size, off, d + 1)
           ELSE Enclosing(f, from + 8 + size, to, off, d)

C12_DepthIsStartsMinusEnds ==
  \A i \in IterIds :
    (Live(i) /\ status = "running") =>
      LET level == riff_file_data_chunk_iterator_get_list_level(iters[i])
          tr    == obs[i].trace
      IN  /\ level = DepthAfter(tr, Len(tr))
          /\ obs[i].ret = "none" => level = 0 /\ tr = <<>>
          /\ obs[i].ret = "eos" => level = 0
          /\ (obs[i].ret = "chunk" /\ WellFormed(file)) =>
               level = Enclosing(file, HeaderSize, Len(file), Val(Last(tr).off), 0)

\* a chunk at depth 1 returned after a list of depth 2 was closed
C12_Witness ==
  \E i \in IterIds :
    /\ Live(i)
    /\ status = "running"
    /\ WellFormed(file)
    /\ obs[i].ret = "chunk"
    /\ Last(obs[i].trace).id = TagINAM
    /\ riff_file_data_chunk_iterator_get_list_level(iters[i]) = 1
    /\ \E k \in 1..Len(obs[i].trace) :
         obs[i].trace[k].ev = "end" /\ obs[i].trace[k].level = 2

(***************************************************************************)
(* C13.  For the file whose payload is one LIST of type "INFO" holding one *)
(* leaf "INAM", the first call of next fires list-start (depth 1, id       *)
(* "LIST", the declared size, type "INFO") and returns the chunk "INAM";   *)
(* the second call fires list-end (depth 1) and returns end-of-stream;     *)
(* there is no other event or chunk, in these calls or in later ones.      *)
(***************************************************************************)
C13_ScenarioCTrace ==
  \A i \in IterIds, n \in Sizes :
    (file = ScenarioC(n) /\ opened = "ok" /\ Live(i)) =>
      LET tr    == obs[i].trace
          start == [ev |-> "start", level |-> 1, id |-> TagLIST,
                    size |-> U32(4 + 8 + n), type |-> TagINFO]
          chunk == [ev |-> "chunk", level |-> 1, id |-> TagINAM, size |-> U32(n),
                    type |-> <<>>]
          end   == [ev |-> "end", level |-> 1, id |-> <<>>, size |-> <<>>,
                    type |-> <<>>]
          Seen  == [k \in 1..Len(tr) |->
                      [ev |-> tr[k].ev, level |-> tr[k].level, id |-> tr[k].id,
                       size |-> tr[k].size, type |-> tr[k].type]]
      IN  /\ status = "running"
          /\ CallsMade(i) = 0 => Seen = <<>> /\ obs[i].ret = "none"
          /\ CallsMade(i) = 1 => Seen = <<start, chunk>> /\ obs[i].ret = "chunk"
          /\ CallsMade(i) >= 2 => Seen = <<start, chunk, end>> /\ obs[i].ret = "eos"
          /\ obs[i].cb_calls = CallsOf(tr, iters[i].list_start_cb, iters[i].list_end_cb)
          /\ obs[i].warns = <<>>
          /\ Len(tr) >= 2 => tr[2].off = U64(HeaderSize + 12)

C13_Witness ==
  \E i \in IterIds :
    /\ file = ScenarioC(1)
    /\ opened = "ok"
    /\ Live(i)
    /\ obs[i].eos_calls = 1
    /\ Len(obs[i].cb_calls) = 2
    /\ Len(obs[i].trace) = 3

(***************************************************************************)
(* C14.  Whenever a LIST is entered at a depth d > 0, whatever the file,   *)
(* the budget stored for depth d is at most what is left of the budget of  *)
(* depth d - 1 at that moment.                                             *)
(***************************************************************************)
C14_InnerBudgetWithinOuter ==
  \A i \in IterIds :
    \A k \in 1..Len(obs[i].stores) :
      LET st == obs[i].stores[k]
      IN  st.level > 0 => Geq(st.outer, st.size)

(***************************************************************************)
(* C15.  When the last call of next clamped the budget of a level i >= 1   *)
(* to 0, the call of next that follows does not end in the failed          *)
(* assertion and closes level i in its level-closure check: before any     *)
(* other event it fires the list-end of level i, whatever the budgets of   *)
(* the levels below level i hold.                                          *)
(***************************************************************************)
\* the last call of next on iterator k reported an underflow of level i
ClampedLast(k, i) ==
  \E w \in (obs[k].w0 + 1)..Len(obs[k].warns) : obs[k].warns[w].i = i

C15_Step ==
  \A k \in IterIds :
    \A i \in 1..(RIFF_FILE_NESTED_LIST_MAX_LEVELS - 1) :
      (/\ Live(k)
       /\ ClampedLast(k, i)
       /\ i <= iters[k].list_level
       /\ DumpAddr \in maps
       /\ obs'[k] # obs[k]
       /\ obs'[k].life = "live") =>
        /\ status' # "aborted"
        /\ \E m \in (Len(obs[k].trace) + 1)..Len(obs'[k].trace) :
             /\ obs'[k].trace[m].ev = "end"
             /\ obs'[k].trace[m].level = i
             /\ \A n \in (Len(obs[k].trace) + 1)..m : obs'[k].trace[n].ev = "end"

C15_ClampedLevelClosedNext == [][C15_Step]_vars

(***************************************************************************)
(* C16.  The assertion fails only for a file that nests more than 10 LIST  *)
(* chunks: next on the well-formed file of exactly 10 nested LIST chunks   *)
(* keeps the process running, returns the leaf at depth 10 and then        *)
(* end-of-stream.                                                          *)
(***************************************************************************)
C16_TenLevelsAllowed ==
  /\ status = "aborted" =>
       file \in {NestFile(d) : d \in (RIFF_FILE_NESTED_LIST_MAX_LEVELS + 1)..MaxNest}
  /\ \A i \in IterIds :
       (/\ file = NestFile(RIFF_FILE_NESTED_LIST_MAX_LEVELS)
        /\ DumpAddr \in maps
        /\ obs[i].ret # "none") =>
         /\ status = "running"
         /\ obs[i].ret \in {"chunk", "eos"}
         /\ \E k \in 1..Len(obs[i].trace) :
              /\ obs[i].trace[k].ev = "chunk"
              /\ obs[i].trace[k].level = RIFF_FILE_NESTED_LIST_MAX_LEVELS

(***************************************************************************)
(* C17.  A pad byte after a leaf chunk of odd size is tolerated: for the   *)
(* file "fmt " of 1 byte, one pad byte, "data" of b bytes, the second      *)
(* chunk next returns is "data" of size b, read at the even offset after   *)
(* the pad byte, and the chunks returned up to end-of-stream are these     *)
(* two.                                                                    *)
(***************************************************************************)
\* the ids and sizes of the chunks returned so far
Returned(tr) ==
  LET IsChunk(e) == e.ev = "chunk"
      sel == SelectSeq(tr, IsChunk)
  IN  [k \in 1..Len(sel) |-> [id |-> sel[k].id, size |-> sel[k].size]]

C17_PadTolerated ==
  \A i \in IterIds, b \in Sizes :
    (/\ file = Riff(TagWAVE, Leaf(Tagfmt, 1) \o <<0>> \o Leaf(Tagdata, b))
     /\ opened = "ok"
     /\ Live(i)
     /\ CallsMade(i) >= 2) =>
      /\ status = "running"
      /\ Len(obs[i].trace) = 2
      /\ obs[i].trace[2].off = U64(HeaderSize + 8 + 1 + 1)
      /\ Returned(obs[i].trace) = <<[id |-> Tagfmt, size |-> U32(1)],
                                    [id |-> Tagdata, size |-> U32(b)]>>
      /\ obs[i].warns = <<>>

(***************************************************************************)
(* C18.  next reads the tag and the size at its cursor without comparing   *)
(* the cursor with the end of the mapping.  For a file whose last chunk is *)
(* cut so that 1 to 7 of its 8 header bytes are left, the second call of   *)
(* next, and for a file whose LIST declares more bytes than the file       *)
(* holds, the third call, reads a tag or a size that reaches beyond the    *)
(* last byte of the file; where no readable page tail follows the file     *)
(* that read ends the process.  No such read happens on a well-formed      *)
(* file.                                                                   *)
(***************************************************************************)
CutHeaderFiles ==
  {Trunc(Riff(TagWAVE, Leaf(Tagfmt, a) \o Leaf(Tagdata, 1)), k) :
     a \in Sizes, k \in 2..8}

OverlongListFiles ==
  {Riff(TagAVI, ListD(s, Taghdrl, Leaf(TagINAM, 1)) \o Leaf(Tagdata, 1)) :
     s \in {U32(30), Big31, BigMax}}

C18_ReadsPastEnd ==
  \A i \in IterIds :
    (Live(i) /\ DumpAddr \in maps) =>
      /\ (file \in CutHeaderFiles /\ CallsMade(i) >= 2) => obs[i].oob
      /\ (file \in OverlongListFiles /\ CallsMade(i) >= 3) => obs[i].oob
      /\ (obs[i].oob /\ slack = 0) => status = "fault"
      /\ obs[i].oob => ~WellFormed(file)

\* 4 bytes were left of the file and of budget[0]: the tag was read from
\* them and the size from the 4 bytes that start at the end of the file
C18_Witness ==
  \E i \in IterIds :
    /\ Live(i)
    /\ DumpAddr \in maps
    /\ obs[i].oob
    /\ status = "fault"
    /\ file \in CutHeaderFiles
    /\ iters[i].addr = U64(Len(file) + 4)
    /\ obs[i].warns = <<[i |-> 0, left |-> U64(4), len |-> U32(8)]>>

(***************************************************************************)
(* C19.  Within one call of next, whatever the file, the number of nested  *)
(* calls next makes of itself is at most the nesting-level cap of 10, how  *)
(* many LIST headers or bare INFO markers follow one another in the file   *)
(* notwithstanding.                                                        *)
(***************************************************************************)
C19_RecursionBounded ==
  \A i \in IterIds : obs[i].depth <= RIFF_FILE_NESTED_LIST_MAX_LEVELS

(***************************************************************************)
(* C20.  Charging N bytes subtracts exactly N from the budget of every     *)
(* active level that holds at least N, for every N of 32 bits, N >= 2^31   *)
(* included: an underflow is reported, and the budget set to 0, only for   *)
(* a level whose budget is smaller than N, and after a chunk of declared   *)
(* size N is returned from a level that held at least N, that level holds  *)
(* N less.                                                                 *)
(***************************************************************************)
C20_ChargeExact ==
  \A i \in IterIds :
    /\ \A w \in 1..Len(obs[i].warns) :
         ~Geq(obs[i].warns[w].left, ZeroExt(obs[i].warns[w].len))
    /\ (Live(i) /\ obs[i].ret = "chunk"
          /\ Geq(Last(obs[i].trace).left, ZeroExt(Last(obs[i].trace).size))) =>
         iters[i].list_size[iters[i].list_level]
           = Sub(Last(obs[i].trace).left, ZeroExt(Last(obs[i].trace).size))

=============================================================================
